---- MODULE Spec2Model ----
(***************************************************************************)
(* Model of the Tinko/ReCart payment-recovery backend:                     *)
(*   backend/retry_engine.py  (schedule parsing, enqueue_retry,            *)
(*                             _run_attempt_job, channel senders)          *)
(*   backend/app.py, backend/legacy_app.py (razorpay_webhook, scheduler    *)
(*                             start/stop)                                 *)
(*   backend/db.py            (execute_query: None on any database error)  *)
(* Strings are sequences of one-character strings, time is in seconds.     *)
(***************************************************************************)
EXTENDS Integers, Sequences, FiniteSets

(***************************************************************************)
(* Bounds of the model.                                                    *)
(***************************************************************************)
MaxRequests == 2
MaxTicks == 2
MaxRestarts == 1
MaxDbFailures == 1
MaxRecaptures == 1
MaxTokens == 3

(***************************************************************************)
(* Strings.                                                                *)
(***************************************************************************)
Digits == {"0", "1", "2", "3", "4", "5", "6", "7", "8", "9"}

DigitVal(c) ==
  CASE c = "0" -> 0 [] c = "1" -> 1 [] c = "2" -> 2 [] c = "3" -> 3
    [] c = "4" -> 4 [] c = "5" -> 5 [] c = "6" -> 6 [] c = "7" -> 7
    [] c = "8" -> 8 [] c = "9" -> 9

\* str.lower() on the characters the inputs use
Lower(s) ==
  [i \in 1..Len(s) |->
     CASE s[i] = "S" -> "s" [] s[i] = "M" -> "m" [] s[i] = "H" -> "h"
       [] s[i] = "D" -> "d" [] s[i] = "X" -> "x" [] OTHER -> s[i]]

RECURSIVE LStrip(_)
LStrip(s) == IF s # <<>> /\ Head(s) = " " THEN LStrip(Tail(s)) ELSE s

RECURSIVE RStrip(_)
RStrip(s) ==
  IF s # <<>> /\ s[Len(s)] = " " THEN RStrip(SubSeq(s, 1, Len(s) - 1)) ELSE s

\* str.strip()
Strip(s) == RStrip(LStrip(s))

\* str.split(","): always at least one piece
RECURSIVE SplitComma(_, _)
SplitComma(s, cur) ==
  IF s = <<>> THEN <<cur>>
  ELSE IF Head(s) = "," THEN <<cur>> \o SplitComma(Tail(s), <<>>)
  ELSE SplitComma(Tail(s), Append(cur, Head(s)))

\* str.replace("+", "")
RECURSIVE RemovePlus(_)
RemovePlus(s) ==
  IF s = <<>> THEN <<>>
  ELSE IF Head(s) = "+" THEN RemovePlus(Tail(s))
  ELSE <<Head(s)>> \o RemovePlus(Tail(s))

\* "".join(ch for ch in s if ch.isdigit())
RECURSIVE OnlyDigits(_)
OnlyDigits(s) ==
  IF s = <<>> THEN <<>>
  ELSE IF Head(s) \in Digits THEN <<Head(s)>> \o OnlyDigits(Tail(s))
  ELSE OnlyDigits(Tail(s))

RECURSIVE DecimalValue(_)
DecimalValue(s) ==
  IF s = <<>> THEN 0 ELSE 10 * DecimalValue(SubSeq(s, 1, Len(s) - 1)) + DigitVal(s[Len(s)])

\* float(x) succeeds: on the alphabet of the inputs (digits, blanks, letters,
\* no sign, point or exponent) that is a non-empty run of digits, blanks
\* around it allowed
FloatOk(x) == Strip(x) # <<>> /\ \A i \in 1..Len(Strip(x)) : Strip(x)[i] \in Digits

FloatValue(x) == DecimalValue(Strip(x))

(***************************************************************************)
(* retry_engine.py: configuration                                          *)
(***************************************************************************)
NoneVal == <<"<None>">>

Seconds(unit) ==
  CASE unit = "s" -> 1 [] unit = "m" -> 60 [] unit = "h" -> 3600 [] unit = "d" -> 86400

Units == {"s", "m", "h", "d"}

DefaultTokens == << <<"1", "5", "m">>, <<"2", "h">>, <<"2", "4", "h">> >>

DefaultDelays == <<15 * 60, 2 * 3600, 24 * 3600>>

\* the body of the for loop of _parse_schedule for one token: the delays it appends
TokenDelays(tok) ==
  LET t == Lower(Strip(tok)) IN
  IF t = <<>> THEN <<>>
  ELSE IF ~FloatOk(SubSeq(t, 1, Len(t) - 1)) THEN <<>>
  ELSE IF t[Len(t)] \in Units
       THEN <<FloatValue(SubSeq(t, 1, Len(t) - 1)) * Seconds(t[Len(t)])>>
  ELSE <<>>

RECURSIVE DelaysOf(_)
DelaysOf(tokens) ==
  IF tokens = <<>> THEN <<>> ELSE TokenDelays(Head(tokens)) \o DelaysOf(Tail(tokens))

\* mutant: no fallback to the default delays
parse_scheduleNoFallback(env_val) ==
  LET tokens == IF env_val # NoneVal /\ env_val # <<>>
                THEN SplitComma(Strip(env_val), <<>>)
                ELSE DefaultTokens
  IN DelaysOf(tokens)

parse_schedule(env_val) ==
  LET tokens == IF env_val # NoneVal /\ env_val # <<>>
                THEN SplitComma(Strip(env_val), <<>>)
                ELSE DefaultTokens
      delays == DelaysOf(tokens)
  IN IF delays # <<>> THEN delays ELSE DefaultDelays


(***************************************************************************)
(* Inputs.  A JSON value of the webhook payload is null, a string or a     *)
(* number; merchants are the rows of the merchants table.                  *)
(***************************************************************************)
NullJ == [t |-> "null", s |-> <<>>]
StrJ(x) == [t |-> "str", s |-> x]
NumJ == [t |-> "num", s |-> <<"7">>]

\* Python truthiness of a JSON value
Truthy(v) == (v.t = "str" /\ v.s # <<>>) \/ v.t = "num"

PhoneDomestic == <<"9", "8", "7", "6", "5", "4", "3", "2", "1", "0">>
PhonePlus == <<"+">> \o PhoneDomestic
Mail == <<"a", "@", "b">>

Contacts == {NullJ, StrJ(PhonePlus), NumJ}
Emails == {NullJ, StrJ(Mail), NumJ}
Pids == {"p1", "p2"}
NoPid == "<none>"

\* the merchants table: api_key -> row
MerchantKeys == {"k1", "k2", "k3"}
Merchants ==
  [k \in MerchantKeys |->
     CASE k = "k1" -> [id |-> "m1", razorpay_webhook_secret |-> TRUE]
       [] k = "k2" -> [id |-> "m2", razorpay_webhook_secret |-> TRUE]
       [] k = "k3" -> [id |-> "m3", razorpay_webhook_secret |-> FALSE]]
ApiKeys == MerchantKeys \cup {"k0"}

\* the values of RECOVERY_SCHEDULE in the environment the model starts from
\* the deployments the model starts from: environment and serving module
Deployments ==
  {[schedule |-> NoneVal, channel |-> "whatsapp", module |-> "app"],
   [schedule |-> <<"2", "s", ",", "1", "s">>, channel |-> "whatsapp", module |-> "legacy"],
   [schedule |-> <<"1", "s">>, channel |-> "sms", module |-> "legacy"]}

NullTime == -1
NullText == "<null>"

VARIABLES
  env_schedule,       \* os.getenv("RECOVERY_SCHEDULE")
  RECOVERY_SCHEDULE,  \* the module global of retry_engine.py line 58, set at import
  DEFAULT_CHANNEL,    \* os.getenv("DEFAULT_CHANNEL", "whatsapp")
  variant,            \* the module that serves: app.py or legacy_app.py
  phase,              \* process life cycle: created, serving, stopped
  now,                \* the wall clock, seconds
  payment_events,     \* table payment_events
  recovery_attempts,  \* table recovery_attempts, in insertion order
  jobs,               \* the scheduler's in-memory job store
  runs,               \* _run_attempt_job calls in flight on the worker pool
  resp,               \* the response to the last webhook request
  enqueues,           \* history: the enqueue_retry calls so far
  adapter_calls,      \* history: the channel calls so far, attempt id and outcome
  boot,               \* history: the clock and the size of recovery_attempts at startup
  nreq, nticks, nrestarts, ndbfail

vars == <<env_schedule, RECOVERY_SCHEDULE, DEFAULT_CHANNEL, variant, phase, now, payment_events,
          recovery_attempts, jobs, runs, resp, enqueues, adapter_calls, boot,
          nreq, nticks, nrestarts, ndbfail>>

config == <<env_schedule, RECOVERY_SCHEDULE, DEFAULT_CHANNEL, variant>>
history == <<enqueues, adapter_calls, boot>>
counters == <<nreq, nticks, nrestarts, ndbfail>>

HAS_WHATSAPP == TRUE

running == phase = "serving"

NoResp == [code |-> 0, passed |-> FALSE, event |-> "", merchant_id |-> "", pid |-> ""]

\* db.execute_query returns None when the connection or the statement fails
DbOutcomes == IF ndbfail < MaxDbFailures THEN {TRUE, FALSE} ELSE {TRUE}
DbCount(ok) == IF ok THEN ndbfail ELSE ndbfail + 1

Init ==
  /\ \E d \in Deployments :
       /\ env_schedule = d.schedule
       /\ RECOVERY_SCHEDULE = parse_schedule(d.schedule)
       /\ DEFAULT_CHANNEL = d.channel
       /\ variant = d.module
  /\ phase = "created"
  /\ now = 0
  /\ payment_events = {}
  /\ recovery_attempts = <<>>
  /\ jobs = {}
  /\ runs = {}
  /\ resp = NoResp
  /\ enqueues = <<>>
  /\ adapter_calls = <<>>
  /\ boot = [at |-> 0, rows |-> 0]
  /\ nreq = 0 /\ nticks = 0 /\ nrestarts = 0 /\ ndbfail = 0

(***************************************************************************)
(* Scheduler life cycle (app.py / legacy_app.py)                           *)
(***************************************************************************)
start_sched ==
  /\ phase = "created"
  /\ phase' = "serving"
  /\ boot' = [at |-> now, rows |-> Len(recovery_attempts)]
  /\ UNCHANGED <<config, now, payment_events, recovery_attempts, jobs, runs, resp,
                 enqueues, adapter_calls, counters>>

\* shutdown(wait=False): no timer fires any more, running jobs go on
stop_sched ==
  /\ phase = "serving"
  /\ nrestarts < MaxRestarts
  /\ phase' = "stopped"
  /\ UNCHANGED <<config, now, payment_events, recovery_attempts, jobs, runs, resp,
                 enqueues, adapter_calls, boot, counters>>

\* a new process imports the module: scheduler = BackgroundScheduler(...) with
\* an empty memory job store; the old process has joined its worker threads
restart ==
  /\ phase = "stopped"
  /\ runs = {}
  /\ phase' = "created"
  /\ jobs' = {}
  /\ nrestarts' = nrestarts + 1
  /\ UNCHANGED <<config, now, payment_events, recovery_attempts, runs, resp,
                 enqueues, adapter_calls, boot, nreq, nticks, ndbfail>>

\* the next instant of interest: the run date of the next armed job, or the
\* next second when none is armed
Min(S) == CHOOSE x \in S : \A y \in S : x <= y
NextTime ==
  LET due == {j.run_date : j \in {k \in jobs : k.run_date > now}}
  IN IF due = {} THEN now + 1 ELSE Min(due)

\* time passes; a running scheduler fires a due job before more time passes
AdvanceClock ==
  /\ nticks < MaxTicks
  /\ running => \A j \in jobs : j.run_date > now
  /\ now' = NextTime
  /\ nticks' = nticks + 1
  /\ UNCHANGED <<config, phase, payment_events, recovery_attempts, jobs, runs,
                 resp, enqueues, adapter_calls, boot, nreq, nrestarts, ndbfail>>

(***************************************************************************)
(* enqueue_retry (retry_engine.py 79-128)                                  *)
(***************************************************************************)
\* channel selection, lines 90-95
SelectChannel(default, phone) ==
  IF default = "whatsapp" /\ Strip(phone) = <<>> THEN "email" ELSE default

\* mutant: the attempt numbers start at 0 (enumerate without start=1)
NewAttemptZeroBased(id, mid, pid, channel, idx, scheduled_at) ==
  [id |-> id, merchant_id |-> mid, razorpay_payment_id |-> pid,
   channel |-> channel, attempt_no |-> idx - 1, scheduled_at |-> scheduled_at,
   status |-> "scheduled", sent_at |-> NullTime, error |-> NullText]

\* the row of the INSERT of lines 104-113
NewAttempt(id, mid, pid, channel, idx, scheduled_at) ==
  [id |-> id, merchant_id |-> mid, razorpay_payment_id |-> pid,
   channel |-> channel, attempt_no |-> idx, scheduled_at |-> scheduled_at,
   status |-> "scheduled", sent_at |-> NullTime, error |-> NullText]

\* mutant: a failed INSERT ends the loop (break instead of continue)
RECURSIVE EnqueueLoopBreaks(_, _, _, _, _, _, _)
EnqueueLoopBreaks(idx, id, mid, pid, channel, clock, failing) ==
  IF idx > Len(RECOVERY_SCHEDULE) \/ idx \in failing THEN <<>>
  ELSE <<NewAttempt(id, mid, pid, channel, idx, clock[idx] + RECOVERY_SCHEDULE[idx])>>
       \o EnqueueLoopBreaks(idx + 1, id + 1, mid, pid, channel, clock, failing)

\* the loop of lines 100-128 from iteration idx on: the rows it inserts.  clock[i]
\* is datetime.now() in iteration i, failing the iterations whose INSERT returns
\* no row (those are skipped), id the next id of the table
RECURSIVE EnqueueLoop(_, _, _, _, _, _, _)
EnqueueLoop(idx, id, mid, pid, channel, clock, failing) ==
  IF idx > Len(RECOVERY_SCHEDULE) THEN <<>>
  ELSE IF idx \in failing
  THEN EnqueueLoop(idx + 1, id, mid, pid, channel, clock, failing)
  ELSE <<NewAttempt(id, mid, pid, channel, idx, clock[idx] + RECOVERY_SCHEDULE[idx])>>
       \o EnqueueLoop(idx + 1, id + 1, mid, pid, channel, clock, failing)

\* .strip() of a value that is no string raises AttributeError (lines 90-91)
EnqueueRaises(email) == Truthy(email) /\ email.t # "str"

\* enqueue_retry: the rows it inserts, each with a job armed at its scheduled_at
enqueue_retry(id, mid, pid, phone, email, clock, failing) ==
  IF EnqueueRaises(email) THEN <<>>
  ELSE EnqueueLoop(1, id, mid, pid, SelectChannel(DEFAULT_CHANNEL, phone), clock, failing)

\* mutant: the job id is the attempt number, not the attempt id
AddJobsByAttemptNo(store, rows) ==
  {j \in store : \A i \in 1..Len(rows) : j.id # rows[i].attempt_no}
    \cup {[id |-> rows[i].attempt_no, run_date |-> rows[i].scheduled_at]
          : i \in 1..Len(rows)}

\* scheduler.add_job(..., run_date=scheduled_at, id=str(attempt_id), replace_existing=True)
AddJobs(store, rows) ==
  {j \in store : \A i \in 1..Len(rows) : j.id # rows[i].id}
    \cup {[id |-> rows[i].id, run_date |-> rows[i].scheduled_at] : i \in 1..Len(rows)}

NextId == Len(recovery_attempts) + 1

\* the clock readings of a handler that starts at now, one per loop iteration:
\* datetime.now() is read anew in each iteration (line 101), and a second may
\* pass after the first
ClockReadings ==
  {[i \in 1..Len(RECOVERY_SCHEDULE) |-> IF i = 1 THEN now ELSE now + d] :
     d \in {e \in {0, 1} : nticks + e <= MaxTicks /\ (e = 1 => Len(RECOVERY_SCHEDULE) > 1)}}

\* the statements of one handler run that fail: 0 is the payment_events INSERT,
\* i >= 1 the INSERT of loop iteration i
FailingSets ==
  {F \in SUBSET (0..Len(RECOVERY_SCHEDULE)) : ndbfail + Cardinality(F) <= MaxDbFailures}

(***************************************************************************)
(* razorpay_webhook (app.py 123-194, legacy_app.py 135-213), one action    *)
(* per path through the handler                                            *)
(***************************************************************************)
\* the answer to a request: HTTP status, whether the request passed the checks of
\* lines 129-145, and the event, merchant and payment id it carried
Respond(code, passed, event, mid, pid) ==
  [code |-> code, passed |-> passed, event |-> event, merchant_id |-> mid, pid |-> pid]

\* the text a JSON value is stored as in a text column
ColumnText(v) == IF v.t = "null" THEN NoneVal ELSE v.s

\* INSERT INTO payment_events ... ON CONFLICT (razorpay_payment_id) DO NOTHING
InsertEvent(events, mid, pid, email, phone) ==
  IF \E e \in events : e.razorpay_payment_id = pid
  THEN events
  ELSE events \cup {[merchant_id |-> mid, razorpay_payment_id |-> pid,
                     customer_email |-> ColumnText(email), customer_phone |-> phone,
                     status |-> "failed"]}

\* mutant: the UPDATE written as a flip of the status, without status='failed'
MarkRecoveredFlip(events, mid, pid) ==
  {IF e.razorpay_payment_id = pid /\ e.merchant_id = mid
   THEN [e EXCEPT !.status = IF @ = "failed" THEN "recovered" ELSE "failed"]
   ELSE e : e \in events}

\* mutant: the UPDATE without the merchant_id condition
MarkRecoveredAnyMerchant(events, mid, pid) ==
  {IF e.razorpay_payment_id = pid /\ e.status = "failed"
   THEN [e EXCEPT !.status = "recovered"] ELSE e : e \in events}

\* UPDATE payment_events SET status='recovered'
\*  WHERE razorpay_payment_id=%s AND merchant_id=%s AND status='failed'
MarkRecovered(events, mid, pid) ==
  {IF e.razorpay_payment_id = pid /\ e.merchant_id = mid /\ e.status = "failed"
   THEN [e EXCEPT !.status = "recovered"] ELSE e : e \in events}

\* the checks of lines 129-145 pass: signature header, merchant row with a
\* webhook secret, HMAC, JSON
Accepted(key, sig, json_ok) ==
  /\ sig = "good"
  /\ key \in MerchantKeys
  /\ Merchants[key].razorpay_webhook_secret
  /\ json_ok

\* the status the handler raises when a check of lines 129-145 fails
RejectCode(key, sig, json_ok, found) ==
  IF sig = "missing" THEN 400
  ELSE IF ~found \/ key \notin MerchantKeys THEN 404
  ELSE IF ~Merchants[key].razorpay_webhook_secret
       THEN (IF variant = "app" THEN 400 ELSE 404)
  ELSE 400

Serving ==
  /\ phase = "serving"
  /\ nreq < MaxRequests

\* merchants m1, m2 and payment ids p1, p2 are interchangeable: a request names
\* the second one only after a request for the first one has left a trace
Known(x) ==
  \/ \E e \in payment_events : x \in {e.merchant_id, e.razorpay_payment_id}
  \/ \E i \in 1..Len(enqueues) : x \in {enqueues[i].merchant_id, enqueues[i].pid}
Canonical(key, pid) ==
  /\ key = "k2" => Known("m1")
  /\ pid = "p2" => Known("p1")

\* mutant: the handler stores the event before it checks the request
webhook_rejected_StoresFirst(key, sig, json_ok) ==
  /\ Serving
  /\ nreq' = nreq + 1
  /\ \E found \in DbOutcomes :
       /\ ~found => sig # "missing"
       /\ ~(found /\ Accepted(key, sig, json_ok))
       /\ ndbfail' = DbCount(found)
       /\ resp' = Respond(RejectCode(key, sig, json_ok, found), FALSE, "", "", "")
  /\ payment_events' = InsertEvent(payment_events, "m1", "p1", NullJ, <<>>)
  /\ UNCHANGED <<config, phase, now, recovery_attempts, jobs, runs,
                 enqueues, adapter_calls, boot, nticks, nrestarts>>

\* mutant: the handler goes on without a payment id
HasPidAlways(pid) == TRUE

\* lines 151-153 and 181-182: if not pid / if pid
HasPid(pid) == pid # NoPid

\* a request that fails a check of lines 129-145, or whose merchant lookup fails
webhook_rejected(key, sig, json_ok) ==
  /\ Serving
  /\ nreq' = nreq + 1
  /\ \E found \in DbOutcomes :
       /\ ~found => sig # "missing"
       /\ ~(found /\ Accepted(key, sig, json_ok))
       /\ ndbfail' = DbCount(found)
       /\ resp' = Respond(RejectCode(key, sig, json_ok, found), FALSE, "", "", "")
  /\ UNCHANGED <<config, phase, now, payment_events, recovery_attempts, jobs, runs,
                 enqueues, adapter_calls, boot, nticks, nrestarts>>

\* event == "payment.failed", lines 150-178 (legacy_app.py 162-196): the event
\* row, then enqueue_retry.  The handler is a coroutine that never awaits after
\* reading the body, so the event loop runs it to its end before the next request.
webhook_failed(key, pid, contact, email) ==
  /\ Serving
  /\ Accepted(key, "good", TRUE)
  /\ Canonical(key, pid)
  /\ nreq' = nreq + 1
  /\ IF ~HasPid(pid)
     THEN /\ resp' = Respond(200, TRUE, "payment.failed", Merchants[key].id, pid)
          /\ UNCHANGED <<now, payment_events, recovery_attempts, jobs, enqueues,
                         nticks, ndbfail>>
     ELSE IF Truthy(contact) /\ contact.t # "str"
     THEN /\ resp' = Respond(500, TRUE, "payment.failed", Merchants[key].id, pid)
          /\ UNCHANGED <<now, payment_events, recovery_attempts, jobs, enqueues,
                         nticks, ndbfail>>
     ELSE \E clock \in ClockReadings, failing \in FailingSets :
            LET mid == Merchants[key].id
                phone == RemovePlus(contact.s)
                n == Len(RECOVERY_SCHEDULE)
                raised == EnqueueRaises(email)
                rows == enqueue_retry(NextId, mid, pid, phone, email, clock, failing)
            IN /\ raised => (failing \subseteq {0} /\ clock[n] = now)
               /\ payment_events' =
                    IF 0 \in failing THEN payment_events
                    ELSE InsertEvent(payment_events, mid, pid, email, phone)
               /\ recovery_attempts' = recovery_attempts \o rows
               /\ jobs' = AddJobs(jobs, rows)
               /\ enqueues' = Append(enqueues,
                    [merchant_id |-> mid, pid |-> pid, phone |-> phone,
                     ids |-> [i \in 1..Len(rows) |-> rows[i].id],
                     skipped |-> Cardinality(failing \ {0}), raised |-> raised])
               /\ resp' = Respond(IF raised /\ variant = "app" THEN 500 ELSE 200, TRUE,
                                  "payment.failed", mid, pid)
               /\ now' = clock[n]
               /\ nticks' = nticks + (clock[n] - now)
               /\ ndbfail' = ndbfail + Cardinality(failing)
  /\ UNCHANGED <<config, phase, runs, adapter_calls, boot, nrestarts>>

\* a payment.captured delivery for an event that is recovered already (the
\* gateway delivers again) is served beyond the request budget
Redelivery(key, pid) ==
  /\ nreq < MaxRequests + MaxRecaptures
  /\ resp.event = "payment.captured"
  /\ resp.merchant_id = Merchants[key].id
  /\ resp.pid = pid
  /\ \E e \in payment_events :
       /\ e.merchant_id = Merchants[key].id
       /\ e.razorpay_payment_id = pid
       /\ e.status = "recovered"

\* event == "payment.captured", lines 180-194
webhook_captured(key, pid) ==
  /\ phase = "serving"
  /\ nreq < MaxRequests \/ Redelivery(key, pid)
  /\ Accepted(key, "good", TRUE)
  /\ Canonical(key, pid)
  /\ nreq' = nreq + 1
  /\ IF ~HasPid(pid)
     THEN UNCHANGED <<payment_events, ndbfail>>
     ELSE \E updated \in DbOutcomes :
            /\ payment_events' =
                 IF updated THEN MarkRecovered(payment_events, Merchants[key].id, pid)
                 ELSE payment_events
            /\ ndbfail' = DbCount(updated)
  /\ resp' = Respond(200, TRUE, "payment.captured", Merchants[key].id, pid)
  /\ UNCHANGED <<config, phase, now, recovery_attempts, jobs, runs, enqueues,
                 adapter_calls, boot, nticks, nrestarts>>

\* any other event, line 194
webhook_other(key) ==
  /\ Serving
  /\ Accepted(key, "good", TRUE)
  /\ nreq' = nreq + 1
  /\ resp' = Respond(200, TRUE, "order.paid", Merchants[key].id, NoPid)
  /\ UNCHANGED <<config, phase, now, payment_events, recovery_attempts, jobs, runs,
                 enqueues, adapter_calls, boot, nticks, nrestarts, ndbfail>>

(***************************************************************************)
(* _run_attempt_job (retry_engine.py 134-215) and the channels (221-237)   *)
(***************************************************************************)
\* _normalize_msisdn, lines 243-250
normalize_msisdn(raw) ==
  IF raw = NoneVal \/ raw = <<>> THEN NoneVal
  ELSE LET s == OnlyDigits(raw)
       IN IF Len(s) = 10 THEN <<"9", "1">> \o s ELSE s

\* mutant: LEFT JOIN, the attempt is loaded also when it has no event row
LoadAttemptLeftJoin(id) ==
  LET parents == {pe \in payment_events :
                    /\ pe.merchant_id = recovery_attempts[id].merchant_id
                    /\ pe.razorpay_payment_id = recovery_attempts[id].razorpay_payment_id}
  IN IF parents = {}
     THEN {[id |-> id, channel |-> recovery_attempts[id].channel,
            customer_phone |-> NoneVal, customer_email |-> NoneVal,
            stage |-> "send", outcome |-> NullText]}
     ELSE {[id |-> id, channel |-> recovery_attempts[id].channel,
            customer_phone |-> normalize_msisdn(e.customer_phone),
            customer_email |-> IF e.customer_email = <<>> THEN NoneVal
                               ELSE e.customer_email,
            stage |-> "send", outcome |-> NullText] : e \in parents}

\* the rows of the SELECT ... JOIN payment_events of lines 143-166
LoadAttempt(id) ==
  {[id |-> id, channel |-> recovery_attempts[id].channel,
    customer_phone |-> normalize_msisdn(e.customer_phone),
    customer_email |-> IF e.customer_email = <<>> THEN NoneVal ELSE e.customer_email,
    stage |-> "send", outcome |-> NullText]
   : e \in {pe \in payment_events :
              /\ pe.merchant_id = recovery_attempts[id].merchant_id
              /\ pe.razorpay_payment_id = recovery_attempts[id].razorpay_payment_id}}

\* _send_whatsapp: send_whatsapp_message takes (phone_number, template_id,
\* template_params) and is called with two arguments, which raises TypeError
send_whatsapp(ctx) ==
  IF ~HAS_WHATSAPP THEN "WhatsApp provider unavailable"
  ELSE IF ctx.customer_phone = NoneVal \/ ctx.customer_phone = <<>>
  THEN "Missing customer phone for WhatsApp"
  ELSE "TypeError: send_whatsapp_message() missing 1 required positional argument"

\* _send_email: the stub logs the message
send_email(ctx) ==
  IF ctx.customer_email = NoneVal THEN "Missing customer email for Email channel"
  ELSE "ok"

\* lines 186-192: what the try block yields, "ok" or the text of the exception
Dispatch(ctx) ==
  IF ctx.channel = "whatsapp" THEN send_whatsapp(ctx)
  ELSE IF ctx.channel = "email" THEN send_email(ctx)
  ELSE "Unsupported channel"

\* mutant: the job stays armed after its run (an interval trigger)
FireJobKeepsArmed(store, j) == store

\* trigger="date": the job store after the timer of job j fired, the job is gone
FireJob(store, j) == store \ {j}

\* the timer of one job fires: the job leaves the store and a worker runs
\* lines 134-192: it loads the attempt and hands the message to the channel
run_attempt_job_send(j) ==
  /\ running
  /\ j \in jobs
  /\ j.run_date <= now
  /\ jobs' = FireJob(jobs, j)
  /\ \E loaded \in DbOutcomes :
       LET recs == IF loaded THEN LoadAttempt(j.id) ELSE {}
       IN /\ ndbfail' = DbCount(loaded)
          /\ runs' = runs \cup {[r EXCEPT !.stage = "mark", !.outcome = Dispatch(r)]
                                : r \in recs}
          /\ adapter_calls' =
               IF recs = {} THEN adapter_calls
               ELSE Append(adapter_calls,
                           [id |-> j.id, outcome |-> Dispatch(CHOOSE r \in recs : TRUE)])
  /\ UNCHANGED <<config, phase, now, payment_events, recovery_attempts, resp,
                 enqueues, boot, nreq, nticks, nrestarts>>

\* mutant: the UPDATE without its WHERE clause
MarkAttemptNoWhere(attempts, id, outcome, at) ==
  [i \in DOMAIN attempts |->
     IF outcome = "ok"
     THEN [attempts[i] EXCEPT !.status = "sent", !.sent_at = at]
     ELSE [attempts[i] EXCEPT !.status = "failed", !.sent_at = at, !.error = outcome]]

\* mutant: the UPDATE of the try branch without sent_at
MarkAttemptNoSentAt(attempts, id, outcome, at) ==
  [attempts EXCEPT ![id] =
     IF outcome = "ok"
     THEN [@ EXCEPT !.status = "sent"]
     ELSE [@ EXCEPT !.status = "failed", !.sent_at = at, !.error = outcome]]

\* UPDATE recovery_attempts SET status=..., sent_at=NOW() [, error=%s] WHERE id=%s
MarkAttempt(attempts, id, outcome, at) ==
  [attempts EXCEPT ![id] =
     IF outcome = "ok"
     THEN [@ EXCEPT !.status = "sent", !.sent_at = at]
     ELSE [@ EXCEPT !.status = "failed", !.sent_at = at, !.error = outcome]]

run_attempt_job_mark(r) ==
  /\ r \in runs
  /\ r.stage = "mark"
  /\ runs' = runs \ {r}
  /\ \E updated \in DbOutcomes :
       /\ ndbfail' = DbCount(updated)
       /\ recovery_attempts' =
            IF updated THEN MarkAttempt(recovery_attempts, r.id, r.outcome, now)
            ELSE recovery_attempts
  /\ UNCHANGED <<config, phase, now, payment_events, jobs, resp, enqueues,
                 adapter_calls, boot, nreq, nticks, nrestarts>>

(***************************************************************************)
(* The system                                                              *)
(***************************************************************************)
Signatures == {"missing", "bad", "good"}

Next ==
  \/ start_sched
  \/ stop_sched
  \/ restart
  \/ AdvanceClock
  \/ \E key \in ApiKeys, sig \in Signatures, json_ok \in BOOLEAN :
        webhook_rejected(key, sig, json_ok)
  \/ \E key \in MerchantKeys, pid \in Pids \cup {NoPid}, contact \in Contacts,
        email \in Emails : webhook_failed(key, pid, contact, email)
  \/ \E key \in MerchantKeys, pid \in Pids \cup {NoPid} : webhook_captured(key, pid)
  \/ \E key \in MerchantKeys : webhook_other(key)
  \/ \E j \in jobs : run_attempt_job_send(j)
  \/ \E r \in runs : run_attempt_job_mark(r)

Spec == Init /\ [][Next]_vars

(***************************************************************************)
(* _parse_schedule on its own: the module is imported with RECOVERY_SCHEDULE *)
(* set to a list of up to MaxTokens tokens joined by commas, or not set    *)
(***************************************************************************)
Garbage == <<"g", "a", "r", "b", "a", "g", "e">>

ScheduleTokens ==
  {<<"1", "5", "m">>, <<"2", "h">>, <<"1", "s">>, Garbage, <<>>, <<"5", "x">>}

TokenLists == UNION {[1..n -> ScheduleTokens] : n \in 0..MaxTokens}

\* ",".join(toks)
RECURSIVE JoinComma(_)
JoinComma(toks) ==
  IF toks = <<>> THEN <<>>
  ELSE IF Len(toks) = 1 THEN toks[1]
  ELSE toks[1] \o <<",">> \o JoinComma(Tail(toks))

ParseInit ==
  /\ env_schedule \in {JoinComma(toks) : toks \in TokenLists} \cup {NoneVal}
  /\ RECOVERY_SCHEDULE = <<>>
  /\ DEFAULT_CHANNEL = "whatsapp"
  /\ variant = "app"
  /\ phase = "unloaded"
  /\ now = 0
  /\ payment_events = {}
  /\ recovery_attempts = <<>>
  /\ jobs = {}
  /\ runs = {}
  /\ resp = NoResp
  /\ enqueues = <<>>
  /\ adapter_calls = <<>>
  /\ boot = [at |-> 0, rows |-> 0]
  /\ nreq = 0 /\ nticks = 0 /\ nrestarts = 0 /\ ndbfail = 0

\* import of retry_engine: line 58 sets the module global
load_config ==
  /\ phase = "unloaded"
  /\ phase' = "created"
  /\ RECOVERY_SCHEDULE' = parse_schedule(env_schedule)
  /\ UNCHANGED <<env_schedule, DEFAULT_CHANNEL, variant, now, payment_events,
                 recovery_attempts, jobs, runs, resp, enqueues, adapter_calls, boot,
                 counters>>

ParseNext == load_config

SpecParse == ParseInit /\ [][ParseNext]_vars

(***************************************************************************)
(* _run_attempt_job on its own: the job of an attempt fires on a database   *)
(* that holds one event and the attempt row in any status of the data model *)
(***************************************************************************)
AttemptStatuses == {"scheduled", "sent", "failed", "cancelled"}

\* the row with id 1 as the SELECT of lines 143-166 can find it
StoredAttempt(channel, status) ==
  [NewAttempt(1, "m1", "p1", channel, 1, 0) EXCEPT
     !.status = status,
     !.sent_at = IF status \in {"sent", "failed"} THEN 0 ELSE NullTime,
     !.error = IF status = "failed" THEN "earlier error" ELSE NullText]

ExecutorInit ==
  /\ \E d \in Deployments :
       /\ env_schedule = d.schedule
       /\ RECOVERY_SCHEDULE = parse_schedule(d.schedule)
       /\ DEFAULT_CHANNEL = d.channel
       /\ variant = d.module
  /\ phase = "serving"
  /\ now = 0
  /\ \E email \in {NoneVal, Mail}, phone \in {<<>>, PhoneDomestic},
        status \in {"failed", "recovered"} :
       payment_events = {[merchant_id |-> "m1", razorpay_payment_id |-> "p1",
                          customer_email |-> email, customer_phone |-> phone,
                          status |-> status]}
  /\ \E channel \in {"whatsapp", "email"}, status \in AttemptStatuses :
       recovery_attempts = <<StoredAttempt(channel, status)>>
  /\ jobs = {[id |-> 1, run_date |-> 0]}
  /\ runs = {}
  /\ resp = NoResp
  /\ enqueues = <<>>
  /\ adapter_calls = <<>>
  /\ boot = [at |-> 0, rows |-> 1]
  /\ nreq = 0 /\ nticks = 0 /\ nrestarts = 0 /\ ndbfail = 0

ExecutorNext ==
  \/ \E j \in jobs : run_attempt_job_send(j)
  \/ \E r \in runs : run_attempt_job_mark(r)

SpecExecutor == ExecutorInit /\ [][ExecutorNext]_vars

(***************************************************************************)
(* Properties                                                              *)
(***************************************************************************)
MerchantIds == {Merchants[k].id : k \in MerchantKeys}
AttemptIds == DOMAIN recovery_attempts
N == Len(RECOVERY_SCHEDULE)

AttemptsOf(mid, pid) ==
  {i \in AttemptIds : /\ recovery_attempts[i].merchant_id = mid
                      /\ recovery_attempts[i].razorpay_payment_id = pid}
EventsOf(mid, pid) ==
  {e \in payment_events : e.merchant_id = mid /\ e.razorpay_payment_id = pid}
EnqueuesOf(mid, pid) ==
  {k \in DOMAIN enqueues : enqueues[k].merchant_id = mid /\ enqueues[k].pid = pid}
RunIds == {r.id : r \in runs}
JobIds == {j.id : j \in jobs}

\* C1: however often enqueue is called for one (merchant_id, gateway_payment_id),
\* that event never has more than N RecoveryAttempt rows, N the length of the
\* configured delay list.
C1_AtMostNAttemptsPerEvent ==
  \A mid \in MerchantIds, pid \in Pids : Cardinality(AttemptsOf(mid, pid)) <= N

C3_OneEventOneEnqueue ==
  \A mid \in MerchantIds, pid \in Pids :
    /\ Cardinality(EventsOf(mid, pid)) <= 1
    /\ Cardinality(EnqueuesOf(mid, pid)) <= 1

\* C4: once an event is recovered, none of its RecoveryAttempt rows is scheduled.
C4_NoScheduledAfterRecovery ==
  \A e \in payment_events :
    e.status = "recovered" =>
      \A i \in AttemptsOf(e.merchant_id, e.razorpay_payment_id) :
        recovery_attempts[i].status # "scheduled"

\* C5: once the process serves after a start, every attempt that was persisted
\* before the start with scheduled_at in the past has been dispatched: it is no
\* longer scheduled, or its dispatch is running.
C5_OverdueDispatchedAtStartup ==
  phase = "serving" =>
    \A i \in AttemptIds :
      (/\ i <= boot.rows
       /\ recovery_attempts[i].scheduled_at <= boot.at
       /\ recovery_attempts[i].status = "scheduled") => i \in RunIds

\* C6: while the process serves, every attempt that was persisted before the
\* start and is scheduled for a time still to come has a timer armed.
C6_FutureRearmedAtStartup ==
  phase = "serving" =>
    \A i \in AttemptIds :
      (/\ i <= boot.rows
       /\ recovery_attempts[i].scheduled_at > now
       /\ recovery_attempts[i].status = "scheduled") => i \in JobIds

\* C7: the attempts of an enqueue call with a phone number and default channel
\* whatsapp have channel whatsapp; those of a call without a phone number have
\* channel email, whatever the default channel.
C7_ChannelSelection ==
  \A k \in DOMAIN enqueues : \A i \in 1..Len(enqueues[k].ids) :
    LET a == recovery_attempts[enqueues[k].ids[i]]
        has_phone == Strip(enqueues[k].phone) # <<>>
    IN /\ (has_phone /\ DEFAULT_CHANNEL = "whatsapp") => a.channel = "whatsapp"
       /\ ~has_phone => a.channel = "email"

\* C8: a RecoveryAttempt row is never removed and its status changes only from
\* scheduled to sent, failed or cancelled; a row that is sent, failed or
\* cancelled keeps its status.
C8_StatusTransitions ==
  [][/\ Len(recovery_attempts') >= Len(recovery_attempts)
     /\ \A i \in AttemptIds :
          recovery_attempts'[i].status # recovery_attempts[i].status =>
            /\ recovery_attempts[i].status = "scheduled"
            /\ recovery_attempts'[i].status \in {"sent", "failed", "cancelled"}]_vars

C8_Witness ==
  /\ \E i \in AttemptIds : recovery_attempts[i].status = "sent"
  /\ \E i \in AttemptIds : recovery_attempts[i].status = "failed"

\* C9: a request that passed signature verification and JSON parsing is answered
\* with a successful acknowledgment.
C9_AlwaysAcknowledged == resp.passed => resp.code = 200

\* C10: a PaymentEvent row is never removed; it changes only in its status, from
\* failed to recovered, and only in the step that handles a payment.captured
\* delivery of the same merchant for the same payment id; a new row is a failed
\* row made by a payment.failed delivery, so a captured delivery creates none.
C10_EventTransitions ==
  [][/\ \A e \in payment_events :
          \/ e \in payment_events'
          \/ /\ e.status = "failed"
             /\ [e EXCEPT !.status = "recovered"] \in payment_events'
             /\ nreq' = nreq + 1
             /\ resp'.event = "payment.captured"
             /\ resp'.merchant_id = e.merchant_id
             /\ resp'.pid = e.razorpay_payment_id
     /\ \A e \in payment_events' \ payment_events :
          \/ /\ e.status = "recovered"
             /\ [e EXCEPT !.status = "failed"] \in payment_events
          \/ /\ e.status = "failed"
             /\ nreq' = nreq + 1
             /\ resp'.event = "payment.failed"
             /\ resp'.merchant_id = e.merchant_id
             /\ resp'.pid = e.razorpay_payment_id
     /\ Cardinality(payment_events') >= Cardinality(payment_events)
     /\ (nreq' = nreq + 1 /\ resp'.event = "payment.captured") =>
          Cardinality(payment_events') = Cardinality(payment_events)]_vars

C10_Witness ==
  /\ resp.event = "payment.captured"
  /\ \E e \in payment_events :
       /\ e.status = "recovered"
       /\ e.merchant_id = resp.merchant_id
       /\ e.razorpay_payment_id = resp.pid

\* C11: a payment.captured delivery for an event that is recovered already leaves
\* the PaymentEvent rows, every RecoveryAttempt row and the timers as they were.
C11_RecaptureIsNoOp ==
  [][(/\ nreq' = nreq + 1
      /\ resp'.event = "payment.captured"
      /\ \E e \in payment_events :
           /\ e.merchant_id = resp'.merchant_id
           /\ e.razorpay_payment_id = resp'.pid
           /\ e.status = "recovered")
     => /\ payment_events' = payment_events
        /\ recovery_attempts' = recovery_attempts
        /\ jobs' = jobs /\ runs' = runs]_vars

C11_Witness ==
  /\ nreq = MaxRequests + MaxRecaptures
  /\ resp.event = "payment.captured"
  /\ \E e \in payment_events :
       /\ e.merchant_id = resp.merchant_id
       /\ e.razorpay_payment_id = resp.pid
       /\ e.status = "recovered"
       /\ AttemptsOf(e.merchant_id, e.razorpay_payment_id) # {}

\* C12: PaymentEvent rows are unique per (merchant_id, gateway_payment_id): a
\* payment.failed delivery whose statements all succeed leaves exactly one row
\* for its merchant and payment id, also when another merchant has a row with
\* the same payment id, and no pair ever has two rows.
C12_UniquePerMerchantAndPayment ==
  [][(/\ nreq' = nreq + 1
      /\ resp'.event = "payment.failed"
      /\ Len(enqueues') = Len(enqueues) + 1
      /\ ndbfail' = ndbfail)
     => /\ Cardinality({e \in payment_events' :
                          /\ e.merchant_id = resp'.merchant_id
                          /\ e.razorpay_payment_id = resp'.pid}) = 1
        /\ \A e1, e2 \in payment_events' :
             (/\ e1.merchant_id = e2.merchant_id
              /\ e1.razorpay_payment_id = e2.razorpay_payment_id) => e1 = e2]_vars

\* C13: when the dispatch of an attempt ends, the attempt is sent only if the
\* channel delivered the message, and if the channel failed or raised the
\* attempt is failed with the reason in its error field.
C13_StatusFollowsAdapter ==
  [][\A r \in runs :
       r \notin runs' =>
         LET a == recovery_attempts'[r.id]
         IN /\ a.status = "sent" =>
                 \E k \in DOMAIN adapter_calls :
                    adapter_calls[k] = [id |-> r.id, outcome |-> "ok"]
            /\ r.outcome # "ok" => (a.status = "failed" /\ a.error = r.outcome)]_vars

\* C15: the channel is invoked at most once per RecoveryAttempt id.
C15_AtMostOneAdapterCallPerAttempt ==
  \A k1, k2 \in DOMAIN adapter_calls :
    adapter_calls[k1].id = adapter_calls[k2].id => k1 = k2

C15_Witness ==
  /\ Len(adapter_calls) >= 2
  /\ \E k \in DOMAIN adapter_calls :
       /\ recovery_attempts[adapter_calls[k].id].status \in {"sent", "failed"}
       /\ recovery_attempts[adapter_calls[k].id].sent_at < now

\* C17: the payment.captured delivery that makes an event recovered leaves the
\* attempts of the event that are sent or failed as they are and makes the ones
\* that have not fired cancelled.
C17_RecoveryCancelsUnfiredOnly ==
  [][(/\ nreq' = nreq + 1
      /\ resp'.event = "payment.captured"
      /\ payment_events' # payment_events)
     => \A i \in AttemptsOf(resp'.merchant_id, resp'.pid) :
          /\ recovery_attempts[i].status \in {"sent", "failed"} =>
                recovery_attempts'[i] = recovery_attempts[i]
          /\ (recovery_attempts[i].status = "scheduled" /\ i \notin RunIds) =>
                recovery_attempts'[i].status = "cancelled"]_vars

\* C18: a request that does not pass the checks of the handler (signature
\* missing or not verifying, among them) changes no PaymentEvent row, no
\* RecoveryAttempt row and no timer.
C18_RejectedChangesNothing ==
  [][(nreq' = nreq + 1 /\ ~resp'.passed)
     => /\ payment_events' = payment_events
        /\ recovery_attempts' = recovery_attempts
        /\ jobs' = jobs
        /\ enqueues' = enqueues]_vars

C18_Witness ==
  /\ nreq > 0 /\ ~resp.passed /\ resp.code = 400
  /\ payment_events # {} /\ jobs # {}

\* C19: the attempts of one enqueue call are scheduled from one reading of the
\* clock: scheduled_at_i - scheduled_at_j = delay_i - delay_j.
C19_SingleNowAnchor ==
  \A k \in DOMAIN enqueues : \A i, j \in 1..Len(enqueues[k].ids) :
    LET a == recovery_attempts[enqueues[k].ids[i]]
        b == recovery_attempts[enqueues[k].ids[j]]
    IN a.scheduled_at - b.scheduled_at
         = RECOVERY_SCHEDULE[a.attempt_no] - RECOVERY_SCHEDULE[b.attempt_no]

\* C20: an enqueue call in which attempt INSERTs fail skips those steps only:
\* it adds a row for every other step, in order, arms a timer at scheduled_at
\* for each row it added and for no other, and leaves the rows and the timers
\* that were there as they were.
C20_FailedInsertSkipsOneStep ==
  [][Len(enqueues') = Len(enqueues) + 1 =>
       LET e == enqueues'[Len(enqueues')]
           ids == e.ids
       IN ~e.raised =>
            /\ Len(ids) = N - e.skipped
            /\ Len(recovery_attempts') = Len(recovery_attempts) + Len(ids)
            /\ \A i \in AttemptIds : recovery_attempts'[i] = recovery_attempts[i]
            /\ \A i \in 1..Len(ids) :
                 /\ ids[i] = Len(recovery_attempts) + i
                 /\ recovery_attempts'[ids[i]].status = "scheduled"
                 /\ [id |-> ids[i], run_date |-> recovery_attempts'[ids[i]].scheduled_at]
                      \in jobs'
            /\ \A i, j \in 1..Len(ids) :
                 i < j => recovery_attempts'[ids[i]].attempt_no
                            < recovery_attempts'[ids[j]].attempt_no
            /\ jobs \subseteq jobs'
            /\ Cardinality(jobs') = Cardinality(jobs) + Len(ids)]_vars

C20_Witness ==
  \E k \in DOMAIN enqueues :
    /\ enqueues[k].skipped = 1 /\ N = 3
    /\ Len(enqueues[k].ids) = 2
    /\ recovery_attempts[enqueues[k].ids[1]].attempt_no = 1
    /\ recovery_attempts[enqueues[k].ids[2]].attempt_no = 3
    /\ \A i \in 1..2 : enqueues[k].ids[i] \in JobIds

\* the seconds of a valid token of ScheduleTokens, nothing for an invalid one
C16_TokenSeconds(tok) ==
  CASE tok = <<"1", "5", "m">> -> <<900>>
    [] tok = <<"2", "h">> -> <<7200>>
    [] tok = <<"1", "s">> -> <<1>>
    [] OTHER -> <<>>

RECURSIVE C16_ValidInOrder(_)
C16_ValidInOrder(toks) ==
  IF toks = <<>> THEN <<>>
  ELSE C16_TokenSeconds(Head(toks)) \o C16_ValidInOrder(Tail(toks))

\* C16: of the tokens of the delay configuration, those that are not a valid
\* <number><unit> with unit s, m, h or d are skipped and the valid ones kept in
\* their order; a configuration that is not set, empty or without a valid token
\* (such as "garbage,,5x") gives 15m, 2h, 24h.
C16_ParseSchedule ==
  phase = "created" =>
    /\ env_schedule = NoneVal => RECOVERY_SCHEDULE = <<900, 7200, 86400>>
    /\ \A toks \in TokenLists :
         JoinComma(toks) = env_schedule =>
           RECOVERY_SCHEDULE = IF C16_ValidInOrder(toks) = <<>>
                               THEN <<900, 7200, 86400>>
                               ELSE C16_ValidInOrder(toks)

C16_Witness ==
  /\ phase = "created"
  /\ env_schedule = JoinComma(<<Garbage, <<>>, <<"5", "x">> >>)
  /\ RECOVERY_SCHEDULE = <<900, 7200, 86400>>

C21_DueAttemptLeavesScheduled ==
  (phase = "serving" /\ nrestarts = 0 /\ ndbfail = 0) =>
    \A i \in AttemptIds :
      (/\ recovery_attempts[i].scheduled_at <= now
       /\ i \notin JobIds
       /\ i \notin RunIds) => recovery_attempts[i].status # "scheduled"

\* C22: when the dispatch of an attempt whose channel lacks its contact ends
\* (whatsapp without a phone number on the event, email without an address),
\* the attempt is failed with an error text and no message was delivered.
C22_MissingContactFails ==
  [][\A r \in runs :
       (/\ r \notin runs'
        /\ \/ r.channel = "whatsapp" /\ r.customer_phone \in {NoneVal, <<>>}
           \/ r.channel = "email" /\ r.customer_email = NoneVal)
       => /\ recovery_attempts'[r.id].status = "failed"
          /\ recovery_attempts'[r.id].error # NullText
          /\ \A k \in DOMAIN adapter_calls :
               adapter_calls[k] # [id |-> r.id, outcome |-> "ok"]]_vars

\* C23: when the timer of an attempt fires and no attempt row can be loaded (the
\* join finds no event row, or the SELECT fails), no channel is invoked, no
\* dispatch goes on, and no row is created or changed.
C23_UnloadableAttemptIsNoOp ==
  [][\A j \in jobs :
       (/\ phase = "serving" /\ phase' = "serving"
        /\ j \notin jobs'
        /\ \/ EventsOf(recovery_attempts[j.id].merchant_id,
                        recovery_attempts[j.id].razorpay_payment_id) = {}
           \/ ndbfail' # ndbfail)
       => /\ adapter_calls' = adapter_calls
          /\ runs' = runs
          /\ recovery_attempts' = recovery_attempts
          /\ payment_events' = payment_events]_vars

C23_Witness ==
  /\ phase = "serving" /\ nrestarts = 0
  /\ \E i \in AttemptIds :
       /\ recovery_attempts[i].status = "scheduled"
       /\ recovery_attempts[i].scheduled_at <= now
       /\ i \notin JobIds /\ i \notin RunIds
       /\ \A k \in DOMAIN adapter_calls : adapter_calls[k].id # i

\* C24: a payment.failed delivery without a gateway payment id creates no
\* PaymentEvent row, no RecoveryAttempt row, and arms no timer.
C24_NoPaymentIdNoEffect ==
  [][(/\ nreq' = nreq + 1
      /\ resp'.event = "payment.failed"
      /\ resp'.pid = NoPid)
     => /\ payment_events' = payment_events
        /\ recovery_attempts' = recovery_attempts
        /\ jobs' = jobs
        /\ enqueues' = enqueues]_vars

C24_Witness ==
  /\ resp.event = "payment.failed" /\ resp.pid = NoPid /\ resp.code = 200
  /\ payment_events # {}

\* C25: after shutdown no timer is armed, and a dispatch that ends after the
\* shutdown leaves its attempt sent or failed, never scheduled.
C25_ShutdownLeavesNoDispatchedScheduled ==
  [][phase = "stopped" =>
       /\ jobs' \subseteq jobs
       /\ \A r \in runs :
            r \notin runs' => recovery_attempts'[r.id].status \in {"sent", "failed"}]_vars

\* C26: every RecoveryAttempt row has a PaymentEvent row with the same
\* merchant_id and the same gateway payment id.
C26_AttemptHasParentEvent ==
  \A i \in AttemptIds :
    EventsOf(recovery_attempts[i].merchant_id,
             recovery_attempts[i].razorpay_payment_id) # {}

\* C27: at most one timer is armed per attempt id, and every armed timer has the
\* id of a persisted RecoveryAttempt row that is scheduled, and runs at the
\* scheduled_at of that row.
C27_TimersMatchScheduledRows ==
  /\ \A j1, j2 \in jobs : j1.id = j2.id => j1 = j2
  /\ \A j \in jobs :
       /\ j.id \in AttemptIds
       /\ recovery_attempts[j.id].status = "scheduled"
       /\ recovery_attempts[j.id].scheduled_at = j.run_date

C27_Witness ==
  /\ Cardinality(jobs) >= 2
  /\ \E i \in AttemptIds : recovery_attempts[i].status \in {"sent", "failed"}

\* C28: a RecoveryAttempt row has sent_at set exactly when it is sent or
\* failed, and an error only when it is failed; a scheduled row has neither.
C28_SentAtAndErrorFollowStatus ==
  \A i \in AttemptIds :
    LET a == recovery_attempts[i]
    IN /\ (a.sent_at # NullTime) <=> (a.status \in {"sent", "failed"})
       /\ (a.error # NullText) => a.status = "failed"

C28_Witness ==
  /\ \E i \in AttemptIds :
       /\ recovery_attempts[i].status = "sent"
       /\ recovery_attempts[i].sent_at # NullTime
       /\ recovery_attempts[i].error = NullText
  /\ \E i \in AttemptIds : recovery_attempts[i].status = "scheduled"

====
